---- MODULE Spec2Model ----
(***************************************************************************)
(* The task-list web service of src/app/main.py: two tables (users,        *)
(* tasks), cookie sessions, and the signup / login / logout / task routes. *)
(* Every route is translated statement by statement; a handler that talks  *)
(* to the database more than once is split at each database round trip, so *)
(* that handlers running in parallel workers interleave exactly where the  *)
(* code lets them.  The database is the default engine of line 12          *)
(* (sqlite:///tasks.db).                                                   *)
(*                                                                         *)
(* What the libraries do, where the handlers rely on it:                   *)
(*  - sessionmaker() expires every object on commit, so reading task.id    *)
(*    after session.commit() (lines 150, 167) reloads the row by primary   *)
(*    key and raises ObjectDeletedError when the row is gone;              *)
(*  - the UPDATE and DELETE that session.commit() emits name the row by    *)
(*    primary key alone; an UPDATE that matches no row raises              *)
(*    StaleDataError, a DELETE that matches no row only warns;             *)
(*  - a violated UNIQUE or NOT NULL constraint raises IntegrityError;      *)
(*  - no handler catches an exception: the request ends in a 500;          *)
(*  - Column(Integer, primary_key=True) is a plain INTEGER PRIMARY KEY on  *)
(*    sqlite (no AUTOINCREMENT): a new row gets the largest id now in the  *)
(*    table plus one, so the id of a deleted last row is handed out again; *)
(*  - login_required with login_view set answers an anonymous request by   *)
(*    a redirect (302) to the login page;                                  *)
(*  - the identity of a request is the one its cookie carries when the     *)
(*    handler starts.                                                      *)
(* Request bodies carry each field as a string or leave it out; a title    *)
(* may also be null.                                                       *)
(***************************************************************************)
EXTENDS Integers, FiniteSets, Sequences, TLC

\* ------------------------------------------------------------- bounds
MaxTasks == 2
MaxWorkers == 2
MaxClients == 1
MaxSalt == 1

Workers == 1..MaxWorkers
Clients == 1..MaxClients
TaskIds == 1..MaxTasks

\* ------------------------------------------------------------- inputs
Absent == "<absent>"
Null == "<null>"
Emails == {"a@x.com", "b@x.com"}
Passwords == {1, 2}
Salts == 1..MaxSalt
Titles == {"", "buy milk"}
NoPassword == 0

EmailInputs == Emails \cup {Absent}
PasswordInputs == Passwords \cup {NoPassword}
TitleInputs == Titles \cup {Absent, Null}

\* ------------------------------------------------------------- state
VARIABLES
    users,       \* the users table: row i has id i
    tasks,       \* the tasks table: id -> row
    cookie,      \* per client, the user id its session cookie carries (0: none)
    pc,          \* per worker, where its handler stands
    req,         \* per worker, the handler's locals
    response,    \* the response of the step just taken, until it has gone out
    signed_up    \* history: the password each account was created with

vars == <<users, tasks, cookie, pc, req, response, signed_up>>

\* ------------------------------------------------------------- helpers
NoHash == [salt |-> 0, digest |-> 0]

\* the salted digest: different passwords give different digests under one salt
Digest(password, salt) == (password * 17 + salt * 31) % 101

generate_password_hash(password, salt) ==
    [salt |-> salt, digest |-> Digest(password, salt)]

\* a comparison that looks at the salt only
check_password_hash_salt_only(pwhash, password) ==
    pwhash.salt = generate_password_hash(password, pwhash.salt).salt

check_password_hash(pwhash, password) ==
    pwhash.digest = Digest(password, pwhash.salt)

\* session.query(User).filter_by(email=...).first(): the id of the row, 0 for None
UserByEmail(email) ==
    IF \E i \in 1..Len(users) : users[i].email = email
    THEN CHOOSE i \in 1..Len(users) : users[i].email = email
    ELSE 0

\* current_user as flask-login resolves it from the session cookie (0: anonymous)
load_user(c) == IF cookie[c] \in 1..Len(users) THEN cookie[c] ELSE 0

\* a route left without the decorator
login_required_missing(c) == TRUE

login_required(c) == load_user(c) # 0

\* a query that filters by id alone
OwnedTask_by_id(tid, uid) == tid \in DOMAIN tasks

\* session.query(Task).filter_by(id=task_id, user_id=current_user.id).first()
OwnedTask(tid, uid) == tid \in DOMAIN tasks /\ tasks[tid].user_id = uid

SetMax(S) == IF S = {} THEN 0 ELSE CHOOSE m \in S : \A x \in S : x <= m

\* the INTEGER PRIMARY KEY the store gives a new row: one more than the largest
\* id now in the table (the tasks table is declared without AUTOINCREMENT)
NewTaskId == SetMax(DOMAIN tasks) + 1

TaskJson(tid) ==
    [id |-> tid, title |-> tasks[tid].title, completed |-> tasks[tid].completed]

\* marking the task completed instead of flipping it
Negated_always_true(completed) == TRUE

\* line 165: not task.completed
Negated(completed) == ~completed

Idle == [op |-> "none", uid |-> 0, tid |-> 0, val |-> FALSE, latest |-> FALSE,
         email |-> "", password |-> NoPassword, pwhash |-> NoHash]

NoResponse == [op |-> "none", uid |-> 0, status |-> 0, tid |-> 0, read |-> FALSE,
               latest |-> FALSE, error |-> "", tasks |-> {}]

Reply(op, status) == [NoResponse EXCEPT !.op = op, !.status = status]

\* login_manager.unauthorized(): login_view is set, the request is redirected
Unauthorized(op) == [Reply(op, 302) EXCEPT !.error = "redirect to login_page"]

\* a commit by worker w touched row tid: no other handler's commit is the latest
\* on that row any more
Overwritten(w, tid) ==
    [v \in Workers |->
        IF v # w /\ req[v].tid = tid THEN [req[v] EXCEPT !.latest = FALSE]
        ELSE req[v]]

\* a handler step runs once the response of the step before it has gone out
Ready == response = NoResponse

\* the server hands a request to a free worker; workers are interchangeable, the
\* lowest free one takes it
Free(w) == Ready /\ pc[w] = "idle" /\ \A v \in Workers : v < w => pc[v] # "idle"

\* ------------------------------------------------------------- Init
Init ==
    /\ users = << >>
    /\ tasks = << >>
    /\ cookie = [c \in Clients |-> 0]
    /\ pc = [w \in Workers |-> "idle"]
    /\ req = [w \in Workers |-> Idle]
    /\ response = NoResponse
    /\ signed_up = << >>

\* ------------------------------------------------------------- signup
signup(w, email, password) ==
    /\ Free(w)
    /\ email \in EmailInputs /\ password \in PasswordInputs
    /\ IF email = Absent \/ password = NoPassword
       THEN /\ response' = [Reply("signup", 400) EXCEPT
                                !.error = "Email and password required"]
            /\ UNCHANGED <<users, tasks, cookie, pc, req, signed_up>>
       ELSE IF UserByEmail(email) # 0
       THEN /\ response' = [Reply("signup", 400) EXCEPT
                                !.error = "Email already registered"]
            /\ UNCHANGED <<users, tasks, cookie, pc, req, signed_up>>
       ELSE /\ \E salt \in Salts :
                req' = [req EXCEPT ![w] = [Idle EXCEPT
                           !.op = "signup", !.email = email,
                           !.password = password,
                           !.pwhash = generate_password_hash(password, salt)]]
            /\ pc' = [pc EXCEPT ![w] = "signup_commit"]
            /\ response' = NoResponse
            /\ UNCHANGED <<users, tasks, cookie, signed_up>>

\* session.add(user); session.commit(): users.email is unique
signup_commit(w) ==
    /\ Ready /\ pc[w] = "signup_commit"
    /\ pc' = [pc EXCEPT ![w] = "idle"]
    /\ req' = [req EXCEPT ![w] = Idle]
    /\ IF UserByEmail(req[w].email) # 0
       THEN /\ response' = [Reply("signup", 500) EXCEPT
                                !.error = "IntegrityError"]
            /\ UNCHANGED <<users, tasks, cookie, signed_up>>
       ELSE /\ users' = Append(users, [email |-> req[w].email,
                                       password_hash |-> req[w].pwhash])
            /\ signed_up' = Append(signed_up, req[w].password)
            /\ response' = Reply("signup", 201)
            /\ UNCHANGED <<tasks, cookie>>

\* ------------------------------------------------------------- login, logout
login(w, c, email, password) ==
    /\ Free(w)
    /\ email \in EmailInputs /\ password \in PasswordInputs
    /\ IF email = Absent \/ password = NoPassword
       THEN /\ response' = [Reply("login", 400) EXCEPT
                                !.error = "Email and password required"]
            /\ UNCHANGED <<users, tasks, cookie, pc, req, signed_up>>
       ELSE LET user == UserByEmail(email) IN
            IF user # 0 /\ check_password_hash(users[user].password_hash, password)
            THEN /\ cookie' = [cookie EXCEPT ![c] = user]
                 /\ response' = [Reply("login", 200) EXCEPT !.uid = user]
                 /\ UNCHANGED <<users, tasks, pc, req, signed_up>>
            ELSE /\ response' = [Reply("login", 401) EXCEPT
                                     !.error = "Invalid email or password"]
                 /\ UNCHANGED <<users, tasks, cookie, pc, req, signed_up>>

logout(w, c) ==
    /\ Free(w)
    /\ IF ~login_required(c)
       THEN /\ response' = Unauthorized("logout")
            /\ UNCHANGED <<users, tasks, cookie, pc, req, signed_up>>
       ELSE /\ cookie' = [cookie EXCEPT ![c] = 0]
            /\ response' = [Reply("logout", 200) EXCEPT !.uid = load_user(c)]
            /\ UNCHANGED <<users, tasks, pc, req, signed_up>>

\* ------------------------------------------------------------- tasks
get_tasks(w, c) ==
    /\ Free(w)
    /\ IF ~login_required(c)
       THEN response' = Unauthorized("list")
       ELSE response' = [Reply("list", 200) EXCEPT !.uid = load_user(c),
                !.tasks = {TaskJson(t) : t \in
                             {t \in DOMAIN tasks : tasks[t].user_id = load_user(c)}}]
    /\ UNCHANGED <<users, tasks, cookie, pc, req, signed_up>>

create_task(w, c, title) ==
    /\ Free(w)
    /\ title \in TitleInputs
    /\ IF ~login_required(c)
       THEN /\ response' = Unauthorized("create")
            /\ UNCHANGED <<users, tasks, cookie, pc, req, signed_up>>
       ELSE IF title = Absent
       THEN /\ response' = [Reply("create", 400) EXCEPT !.uid = load_user(c),
                                !.error = "Title is required"]
            /\ UNCHANGED <<users, tasks, cookie, pc, req, signed_up>>
       ELSE IF title = Null
       THEN /\ response' = [Reply("create", 500) EXCEPT !.uid = load_user(c),
                                !.error = "IntegrityError"]
            /\ UNCHANGED <<users, tasks, cookie, pc, req, signed_up>>
       ELSE /\ NewTaskId \in TaskIds
            /\ tasks' = [t \in DOMAIN tasks \cup {NewTaskId} |->
                           IF t = NewTaskId
                           THEN [title |-> title, completed |-> FALSE,
                                 user_id |-> load_user(c)]
                           ELSE tasks[t]]
            /\ pc' = [pc EXCEPT ![w] = "create_refresh"]
            /\ req' = [Overwritten(w, NewTaskId) EXCEPT ![w] = [Idle EXCEPT
                          !.op = "create", !.uid = load_user(c),
                          !.tid = NewTaskId]]
            /\ response' = NoResponse
            /\ UNCHANGED <<users, cookie, signed_up>>

\* line 150: the committed object is expired, reading task.id reloads the row
create_refresh(w) ==
    /\ Ready /\ pc[w] = "create_refresh"
    /\ pc' = [pc EXCEPT ![w] = "idle"]
    /\ req' = [req EXCEPT ![w] = Idle]
    /\ IF req[w].tid \notin DOMAIN tasks
       THEN response' = [Reply("create", 500) EXCEPT
                !.uid = req[w].uid, !.tid = req[w].tid,
                !.error = "ObjectDeletedError"]
       ELSE response' = [Reply("create", 201) EXCEPT
                !.uid = req[w].uid, !.tid = req[w].tid,
                !.tasks = {TaskJson(req[w].tid)}]
    /\ UNCHANGED <<users, tasks, cookie, signed_up>>

toggle_task(w, c, tid) ==
    /\ Free(w)
    /\ tid \in TaskIds
    /\ IF ~login_required(c)
       THEN /\ response' = [Unauthorized("toggle") EXCEPT !.tid = tid]
            /\ UNCHANGED <<users, tasks, cookie, pc, req, signed_up>>
       ELSE IF ~OwnedTask(tid, load_user(c))
       THEN /\ response' = [Reply("toggle", 404) EXCEPT !.uid = load_user(c), !.tid = tid,
                                !.error = "Task not found"]
            /\ UNCHANGED <<users, tasks, cookie, pc, req, signed_up>>
       ELSE /\ pc' = [pc EXCEPT ![w] = "toggle_commit"]
            /\ req' = [req EXCEPT ![w] = [Idle EXCEPT
                          !.op = "toggle", !.uid = load_user(c), !.tid = tid,
                          !.val = Negated(tasks[tid].completed)]]
            /\ response' = NoResponse
            /\ UNCHANGED <<users, tasks, cookie, signed_up>>

\* an UPDATE that flips the row as it is at commit time
UpdateValue_of_stored(w) == ~tasks[req[w].tid].completed

\* the value the UPDATE of line 166 carries: the one line 165 computed from the
\* row as it was read
UpdateValue(w) == req[w].val

\* line 166: UPDATE tasks SET completed=? WHERE tasks.id = ?
toggle_commit(w) ==
    /\ Ready /\ pc[w] = "toggle_commit"
    /\ IF req[w].tid \notin DOMAIN tasks
       THEN /\ pc' = [pc EXCEPT ![w] = "idle"]
            /\ req' = [req EXCEPT ![w] = Idle]
            /\ response' = [Reply("toggle", 500) EXCEPT
                                !.uid = req[w].uid, !.tid = req[w].tid,
                                !.read = ~req[w].val,
                                !.error = "StaleDataError"]
            /\ UNCHANGED <<users, tasks, cookie, signed_up>>
       ELSE /\ tasks' = [tasks EXCEPT ![req[w].tid].completed = UpdateValue(w)]
            /\ pc' = [pc EXCEPT ![w] = "toggle_refresh"]
            /\ req' = [Overwritten(w, req[w].tid) EXCEPT ![w].latest = TRUE]
            /\ response' = NoResponse
            /\ UNCHANGED <<users, cookie, signed_up>>

\* line 167: the committed object is expired, reading task.id reloads the row
toggle_refresh(w) ==
    /\ Ready /\ pc[w] = "toggle_refresh"
    /\ pc' = [pc EXCEPT ![w] = "idle"]
    /\ req' = [req EXCEPT ![w] = Idle]
    /\ IF req[w].tid \notin DOMAIN tasks
       THEN response' = [Reply("toggle", 500) EXCEPT
                !.uid = req[w].uid, !.tid = req[w].tid, !.read = ~req[w].val,
                !.error = "ObjectDeletedError"]
       ELSE response' = [Reply("toggle", 200) EXCEPT
                !.uid = req[w].uid, !.tid = req[w].tid, !.read = ~req[w].val,
                !.latest = req[w].latest,
                !.tasks = {TaskJson(req[w].tid)}]
    /\ UNCHANGED <<users, tasks, cookie, signed_up>>

delete_task(w, c, tid) ==
    /\ Free(w)
    /\ tid \in TaskIds
    /\ IF ~login_required(c)
       THEN /\ response' = [Unauthorized("delete") EXCEPT !.tid = tid]
            /\ UNCHANGED <<users, tasks, cookie, pc, req, signed_up>>
       ELSE IF ~OwnedTask(tid, load_user(c))
       THEN /\ response' = [Reply("delete", 200) EXCEPT !.uid = load_user(c), !.tid = tid]
            /\ UNCHANGED <<users, tasks, cookie, pc, req, signed_up>>
       ELSE /\ pc' = [pc EXCEPT ![w] = "delete_commit"]
            /\ req' = [req EXCEPT ![w] = [Idle EXCEPT
                          !.op = "delete", !.uid = load_user(c), !.tid = tid]]
            /\ response' = NoResponse
            /\ UNCHANGED <<users, tasks, cookie, signed_up>>

\* lines 178-179: DELETE FROM tasks WHERE tasks.id = ?; a row count of 0 is a
\* warning, not an error
delete_commit(w) ==
    /\ Ready /\ pc[w] = "delete_commit"
    /\ tasks' = [t \in DOMAIN tasks \ {req[w].tid} |-> tasks[t]]
    /\ pc' = [pc EXCEPT ![w] = "idle"]
    /\ req' = [Overwritten(w, req[w].tid) EXCEPT ![w] = Idle]
    /\ response' = [Reply("delete", 200) EXCEPT
                        !.uid = req[w].uid, !.tid = req[w].tid]
    /\ UNCHANGED <<users, cookie, signed_up>>

\* return jsonify(...): the response of the step just taken goes out to the client
send_response ==
    /\ response # NoResponse
    /\ response' = NoResponse
    /\ UNCHANGED <<users, tasks, cookie, pc, req, signed_up>>

\* ------------------------------------------------------------- Next
Next ==
    \/ send_response
    \/ \E w \in Workers, e \in EmailInputs, p \in PasswordInputs : signup(w, e, p)
    \/ \E w \in Workers : signup_commit(w)
    \/ \E w \in Workers, c \in Clients, e \in EmailInputs, p \in PasswordInputs :
          login(w, c, e, p)
    \/ \E w \in Workers, c \in Clients : logout(w, c)
    \/ \E w \in Workers, c \in Clients : get_tasks(w, c)
    \/ \E w \in Workers, c \in Clients, t \in TitleInputs : create_task(w, c, t)
    \/ \E w \in Workers : create_refresh(w)
    \/ \E w \in Workers, c \in Clients, tid \in TaskIds : toggle_task(w, c, tid)
    \/ \E w \in Workers : toggle_commit(w)
    \/ \E w \in Workers : toggle_refresh(w)
    \/ \E w \in Workers, c \in Clients, tid \in TaskIds : delete_task(w, c, tid)
    \/ \E w \in Workers : delete_commit(w)

Spec == Init /\ [][Next]_vars

\* a server with a single worker: a request runs to its response before the next
\* one is taken
OneAtATime == \A w, v \in Workers : w # v => pc[w] = "idle" \/ pc[v] = "idle"

SeqNext ==
    \/ send_response
    \/ \E w \in Workers, e \in EmailInputs, p \in PasswordInputs :
          signup(w, e, p) /\ OneAtATime'
    \/ \E w \in Workers : signup_commit(w)
    \/ \E w \in Workers, c \in Clients, e \in EmailInputs, p \in PasswordInputs :
          login(w, c, e, p)
    \/ \E w \in Workers, c \in Clients : logout(w, c)
    \/ \E w \in Workers, c \in Clients : get_tasks(w, c)
    \/ \E w \in Workers, c \in Clients, t \in TitleInputs :
          create_task(w, c, t) /\ OneAtATime'
    \/ \E w \in Workers : create_refresh(w)
    \/ \E w \in Workers, c \in Clients, tid \in TaskIds :
          toggle_task(w, c, tid) /\ OneAtATime'
    \/ \E w \in Workers : toggle_commit(w)
    \/ \E w \in Workers : toggle_refresh(w)
    \/ \E w \in Workers, c \in Clients, tid \in TaskIds :
          delete_task(w, c, tid) /\ OneAtATime'
    \/ \E w \in Workers : delete_commit(w)

SeqSpec == Init /\ [][SeqNext]_vars

\* ------------------------------------------------------------- properties
Documented == {200, 201, 400, 401, 404}

OwnedBy(ts, uid) == {t \in DOMAIN ts : ts[t].user_id = uid}

\* C1: listTasks for identity U returns exactly the existing tasks U owns, and a
\* toggle or delete request authenticated as another user than a task's owner
\* leaves that task's existence, title, completed value and owner unchanged.
C1_Step ==
    /\ response'.op = "list" /\ response'.status = 200 =>
          response'.tasks =
             {[id |-> t, title |-> tasks'[t].title,
               completed |-> tasks'[t].completed] :
                 t \in OwnedBy(tasks', response'.uid)}
    /\ \A w \in Workers :
          req[w].op \in {"toggle", "delete"} /\ pc'[w] # pc[w] =>
             \A t \in DOMAIN tasks :
                tasks[t].user_id # req[w].uid =>
                   t \in DOMAIN tasks' /\ tasks'[t] = tasks[t]
    /\ \A w \in Workers, c \in Clients, tid \in TaskIds :
          toggle_task(w, c, tid) \/ delete_task(w, c, tid) => tasks' = tasks

C1_OwnerOnly == [][C1_Step]_vars

\* a request made as user B names the id of a task that user A owns
OthersTask(c, tid) ==
    /\ login_required(c)
    /\ tid \in DOMAIN tasks
    /\ tasks[tid].user_id # load_user(c)

\* C2 as stated: a toggle request and a delete request authenticated as B on the
\* id of a task owned by A each return 404.
C2_Original_Step ==
    \A w \in Workers, c \in Clients, tid \in TaskIds :
       /\ toggle_task(w, c, tid) /\ OthersTask(c, tid) => response'.status = 404
       /\ delete_task(w, c, tid) /\ OthersTask(c, tid) => response'.status = 404

C2_Original == [][C2_Original_Step]_vars

\* C2 as amended: a toggle request authenticated as B on the id of a task owned
\* by A returns 404, a delete request returns 200, and both leave the tasks as
\* they were.
C2_Amended_Step ==
    \A w \in Workers, c \in Clients, tid \in TaskIds :
       /\ toggle_task(w, c, tid) /\ OthersTask(c, tid) =>
             /\ response'.status = 404 /\ response'.error = "Task not found"
             /\ tasks' = tasks /\ pc' = pc
       /\ delete_task(w, c, tid) /\ OthersTask(c, tid) =>
             /\ response'.status = 200 /\ response'.error = ""
             /\ tasks' = tasks /\ pc' = pc

C2_Amended == [][C2_Amended_Step]_vars

C2_Witness ==
    /\ response.op \in {"toggle", "delete"}
    /\ response.uid # 0
    /\ response.tid \in DOMAIN tasks
    /\ tasks[response.tid].user_id # response.uid
    /\ \A w \in Workers : pc[w] = "idle"
    /\ Len(users) = 2

UniqueEmails(us) ==
    \A i, j \in 1..Len(us) : us[i].email = us[j].email => i = j

\* C3: a signup with an email and a password whose email is not registered
\* returns 201 and adds exactly one User with that email; one whose email is
\* registered returns 400 (conflict) and adds none; no two Users share an email.
C3_Step ==
    /\ \A w \in Workers, e \in Emails, p \in Passwords :
          signup(w, e, p) /\ UserByEmail(e) # 0 =>
             /\ response'.status = 400
             /\ response'.error = "Email already registered"
             /\ users' = users
    /\ \A w \in Workers :
          signup_commit(w) =>
             /\ response'.status \in {201, 400}
             /\ response'.status = 201 =>
                   /\ Len(users') = Len(users) + 1
                   /\ users'[Len(users')].email = req[w].email
             /\ response'.status = 400 => users' = users
    /\ UniqueEmails(users')

C3_Signup == [][C3_Step]_vars

\* C4: a login with an email and a password returns 200 exactly when a User with
\* that email exists and the password is the one the account was created with;
\* then the session carries that User's id; otherwise it returns 401 and the
\* session is as before.
C4_Step ==
    \A w \in Workers, c \in Clients, e \in Emails, p \in Passwords :
       login(w, c, e, p) =>
          LET known == \E i \in 1..Len(users) :
                          users[i].email = e /\ signed_up[i] = p
          IN /\ response'.status \in {200, 401}
             /\ response'.status = 200 <=> known
             /\ response'.status = 200 =>
                   /\ cookie'[c] \in 1..Len(users)
                   /\ users[cookie'[c]].email = e
                   /\ \A d \in Clients \ {c} : cookie'[d] = cookie[d]
             /\ response'.status = 401 => cookie' = cookie
             /\ users' = users /\ tasks' = tasks

C4_Login == [][C4_Step]_vars

C4_Witness ==
    /\ response.op = "login" /\ response.status = 200
    /\ response.uid = 2
    /\ \E c \in Clients : cookie[c] = 2
    /\ signed_up[1] # signed_up[2]

\* C5: createTask by an authenticated identity returns 400 and creates nothing
\* when the title is absent or empty, otherwise returns 201 having added one task
\* of that identity with completed false and that title; every stored task has a
\* non-empty title and an owner that is an existing User.
C5_Step ==
    /\ \A w \in Workers, c \in Clients, t \in Titles \cup {Absent} :
          create_task(w, c, t) /\ login_required(c) =>
             IF t \in {Absent, ""}
             THEN response'.status = 400 /\ tasks' = tasks
             ELSE /\ Cardinality(DOMAIN tasks') = Cardinality(DOMAIN tasks) + 1
                  /\ \E n \in DOMAIN tasks' \ DOMAIN tasks :
                        tasks'[n] = [title |-> t, completed |-> FALSE,
                                     user_id |-> load_user(c)]
    /\ \A t \in DOMAIN tasks' :
          tasks'[t].title # "" /\ tasks'[t].user_id \in 1..Len(users')

C5_Create == [][C5_Step]_vars

Authenticated(c) == cookie[c] \in 1..Len(users)

\* C6: a session is authenticated from a successful login until the next
\* logout; a task request or a logout made in an unauthenticated session
\* returns no task and changes no User or Task; a logout in an authenticated
\* session returns 200 and leaves the session unauthenticated.
C6_Step ==
    /\ \A c \in Clients :
          cookie'[c] # cookie[c] =>
             IF cookie'[c] # 0
             THEN response'.op = "login" /\ response'.status = 200
             ELSE response'.op = "logout" /\ response'.status = 200
    /\ response'.op = "login" /\ response'.status = 200 =>
          \E c \in Clients : cookie'[c] = response'.uid /\ Authenticated(c)'
    /\ \A w \in Workers, c \in Clients :
          logout(w, c) /\ Authenticated(c) =>
             response'.status = 200 /\ ~Authenticated(c)'
    /\ \A w \in Workers, c \in Clients :
          /\ ~Authenticated(c)
          /\ \/ logout(w, c)
             \/ get_tasks(w, c)
             \/ \E t \in TitleInputs : create_task(w, c, t)
             \/ \E tid \in TaskIds : toggle_task(w, c, tid)
             \/ \E tid \in TaskIds : delete_task(w, c, tid)
          => /\ response'.status = 302
             /\ response'.tasks = {}
             /\ users' = users /\ tasks' = tasks
             /\ pc' = pc /\ cookie' = cookie

C6_Session == [][C6_Step]_vars

C6_Witness ==
    /\ response.op \in {"list", "create", "toggle", "delete"}
    /\ response.status = 302
    /\ DOMAIN tasks # {}
    /\ \A c \in Clients : ~Authenticated(c)

\* C7: a deleteTask request by an authenticated identity always returns 200;
\* after it no task with that id is left to the identity; when the identity has
\* no task with that id (never existed, already deleted, deleted by an
\* overlapping delete) the request leaves all Users and Tasks unchanged.
C7_Step ==
    /\ \A w \in Workers, c \in Clients, tid \in TaskIds :
          delete_task(w, c, tid) /\ login_required(c) =>
             /\ pc'[w] = "idle" => response'.status = 200
             /\ ~OwnedTask(tid, load_user(c)) => users' = users /\ tasks' = tasks
    /\ \A w \in Workers :
          delete_commit(w) =>
             /\ response'.status = 200
             /\ req[w].tid \notin OwnedBy(tasks', req[w].uid)
             /\ ~OwnedTask(req[w].tid, req[w].uid) =>
                   users' = users /\ tasks' = tasks

C7_Delete == [][C7_Step]_vars

\* the tasks table after the owner's toggle of row tid
Toggled(ts, tid) == [ts EXCEPT ![tid].completed = Negated(ts[tid].completed)]

\* C8: with requests handled one at a time, a toggle by the owner returns 200
\* with completed the negation of the stored value, stores it, changes no other
\* task and no other field, and a second toggle gives the task its first value
\* back.
C8_Step ==
    \A w \in Workers :
       /\ toggle_commit(w) =>
             /\ req[w].tid \in DOMAIN tasks
             /\ tasks' = [tasks EXCEPT
                            ![req[w].tid].completed = ~tasks[req[w].tid].completed]
             /\ Toggled(tasks', req[w].tid) = tasks
             /\ users' = users
       /\ toggle_refresh(w) =>
             /\ response'.status = 200
             /\ response'.tasks =
                   {[id |-> req[w].tid, title |-> tasks[req[w].tid].title,
                     completed |-> ~response'.read]}
             /\ tasks'[req[w].tid].completed = ~response'.read
             /\ tasks[req[w].tid].user_id = req[w].uid
             /\ tasks' = tasks

C8_Toggle == [][C8_Step]_vars

C8_Witness ==
    /\ response.op = "toggle" /\ response.status = 200
    /\ response.read = TRUE
    /\ DOMAIN tasks = {1, 2}
    /\ tasks[response.tid].completed = FALSE
    /\ \E t \in DOMAIN tasks : tasks[t].completed = TRUE

\* C9: every request made by an authenticated session, and every signup and
\* login, ends in a documented status (200, 201, 400, 401, 404), and a request
\* that does not succeed changes no User or Task.
C9_Step ==
    /\ response'.op \in {"signup", "login"} \/ response'.uid # 0 =>
          response'.status \in Documented
    /\ response'.status \notin {0, 200, 201} => users' = users /\ tasks' = tasks

C9_Outcomes == [][C9_Step]_vars

\* C10: toggles of one task that overlap follow last-writer-wins: a toggle
\* whose row is still there returns 200, and the toggle that committed last
\* reports the value it wrote, the negation of the value it had read, which is
\* the value stored.
C10_LastWriterWins ==
    /\ response.op = "toggle" /\ response.uid # 0 /\ response.status \notin {200, 404} =>
          response.status = 500 /\ response.tid \notin DOMAIN tasks
    /\ response.op = "toggle" /\ response.status = 200 /\ response.latest =>
          /\ response.tid \in DOMAIN tasks
          /\ tasks[response.tid].completed = ~response.read
          /\ response.tasks =
                {[id |-> response.tid, title |-> tasks[response.tid].title,
                  completed |-> ~response.read]}

\* two toggles read the same value, both committed, the later one has answered:
\* one of the two updates is lost
C10_Witness ==
    /\ response.op = "toggle" /\ response.status = 200 /\ response.latest
    /\ \E v \in Workers :
          /\ pc[v] = "toggle_refresh"
          /\ req[v].tid = response.tid
          /\ ~req[v].latest
          /\ req[v].val = ~response.read
    /\ tasks[response.tid].completed = ~response.read

====
